---- MODULE Spec2Model ----
(***************************************************************************)
(* A model of litstudy/plot.py: the count-and-bar-chart aggregator         *)
(* plot_statistic with its helper top_k, the histogram wrappers            *)
(* plot_year_histogram and plot_words_histogram, the word-cloud weight     *)
(* mapping of generate_topic_cloud and the resize step and drawing of      *)
(* plot_topic_map.                                                         *)
(*                                                                         *)
(* Python values are tagged pairs: <<"none", 0>> is None, <<"int", n>> an  *)
(* int, <<"str", s>> a str whose text s is a sequence of one-character     *)
(* strings, <<"list", s>> a list, <<"ax", a>> an axis handle and           *)
(* <<"text", t>> a label or title the code only passes on.                 *)
(***************************************************************************)
EXTENDS Integers, Sequences, FiniteSets

VARIABLES
    docset,   \* the DocumentSet handed to the histogram functions
    axes,     \* what has been drawn on each axis
    gca,      \* matplotlib's implicit current axis
    pc,       \* "ready" before the call, "done" after it
    op,       \* the function that was called
    args,     \* the arguments it was called with
    result,   \* "none", "ok", or the name of the exception that ended the call
    count,    \* the count table of the call, as the call left it
    keys,     \* the local `keys` of plot_statistic, as the call left it
    mapping,  \* the weight mapping generate_topic_cloud hands to fit_words
    pos       \* the document positions of plot_topic_map after the resize

vars == <<docset, axes, gca, pc, op, args, result, count, keys, mapping, pos>>

-----------------------------------------------------------------------------
(* Bounds of the model *)

MaxDocs == 2

-----------------------------------------------------------------------------
(* Python values *)

None == <<"none", 0>>

PyInt(n) == <<"int", n>>

PyStr(s) == <<"str", s>>

PyList(s) == <<"list", s>>

Min(a, b) == IF a < b THEN a ELSE b

Max(a, b) == IF a > b THEN a ELSE b

Digit == <<"0", "1", "2", "3", "4", "5", "6", "7", "8", "9">>

RECURSIVE Digits(_)
Digits(n) ==
    IF n < 10 THEN <<Digit[n + 1]>>
    ELSE Digits(n \div 10) \o <<Digit[(n % 10) + 1]>>

\* str(key): the text of a str is itself, an int is written in decimal
str(k) ==
    CASE k[1] = "none" -> <<"N", "o", "n", "e">>
      [] k[1] = "int" -> IF k[2] < 0 THEN <<"-">> \o Digits(-k[2]) ELSE Digits(k[2])
      [] k[1] = "str" -> k[2]

\* the truth value of `if key:`
Truthy(k) ==
    CASE k[1] = "none" -> FALSE
      [] k[1] = "int" -> k[2] # 0
      [] k[1] = "str" -> k[2] # <<>>

\* s[::-1]
Reverse(s) == [i \in 1..Len(s) |-> s[Len(s) + 1 - i]]

\* s[:k], for k of either sign
Prefix(s, k) ==
    SubSeq(s, 1, IF k < 0 THEN Max(0, Len(s) + k) ELSE Min(k, Len(s)))

-----------------------------------------------------------------------------
(* Dictionaries: the items in insertion order, and whether a missing key   *)
(* is created with int() (a defaultdict) or raises KeyError (a dict)       *)

defaultdict == [kind |-> "defaultdict", items |-> <<>>]

NoTable == [kind |-> "none", items |-> <<>>]

Has(t, k) == \E i \in 1..Len(t.items) : t.items[i][1] = k

Val(t, k) == t.items[CHOOSE i \in 1..Len(t.items) : t.items[i][1] = k][2]

TableKeys(t) == [i \in 1..Len(t.items) |-> t.items[i][1]]

\* t[k] += n on a defaultdict(int)
Add(t, k, n) ==
    IF Has(t, k)
    THEN [t EXCEPT !.items = [i \in 1..Len(t.items) |->
              IF t.items[i][1] = k THEN <<k, t.items[i][2] + n>> ELSE t.items[i]]]
    ELSE [t EXCEPT !.items = Append(t.items, <<k, n>>)]

\* t[k] read: the table afterwards, the value, and whether KeyError was raised
GetItem(t, k) ==
    IF Has(t, k) THEN [table |-> t, value |-> Val(t, k), err |-> FALSE]
    ELSE IF t.kind = "defaultdict"
         THEN [table |-> Add(t, k, 0), value |-> 0, err |-> FALSE]
         ELSE [table |-> t, value |-> 0, err |-> TRUE]

-----------------------------------------------------------------------------
(* top_k *)

\* one step of the stable ascending sort: `it` goes after every item whose
\* value is not greater
InsertSorted(s, it) ==
    LET later == {j \in 1..Len(s) : s[j][2] > it[2]}
        at == IF later = {} THEN Len(s) + 1
              ELSE CHOOSE j \in later : \A i \in later : j <= i
    IN  SubSeq(s, 1, at - 1) \o <<it>> \o SubSeq(s, at, Len(s))

RECURSIVE SortedItems(_)
SortedItems(items) ==
    IF items = <<>> THEN <<>>
    ELSE InsertSorted(SortedItems(SubSeq(items, 1, Len(items) - 1)),
                      items[Len(items)])

\* sorted(mapping.keys(), key=lambda x: mapping[x])
sorted(t) == LET s == SortedItems(t.items) IN [i \in 1..Len(s) |-> s[i][1]]

\* top_k without the reversal: the k keys with the lowest counts
top_k_ascending(t, k) == Prefix(sorted(t), k)

top_k(t, k) == Prefix(Reverse(sorted(t)), k)

-----------------------------------------------------------------------------
(* The canvas *)

AxisIds == {"ax1", "ax2"}

\* an axis on which nothing has been drawn
FreshAxis ==
    [title |-> "", xlabel |-> "", ylabel |-> "", bars |-> <<>>,
     xticks |-> <<"auto">>, yticks |-> <<"auto">>,
     xlim |-> <<"auto", 0, 0>>, ylim |-> <<"auto", 0, 0>>, artists |-> <<>>]

FreshAxes == [a \in AxisIds |-> FreshAxis]

\* ax.barh / ax.bar: one bar per position, with its height and tick label
Bars(kind, at, heights, ticks) ==
    [i \in 1..Len(at) |->
        [kind |-> kind, at |-> at[i], height |-> heights[i], tick |-> ticks[i]]]

-----------------------------------------------------------------------------
(* plot_statistic *)

TickLen == 50

\* the callables passed as `fun`: the lambda of plot_year_histogram, and two
\* caller-supplied ones that yield a key twice, or a key and its text
Apply(fun, d) ==
    CASE fun = <<"fun", "year">> -> <<d.year>>
      [] fun = <<"fun", "twice">> -> <<d.year, d.year>>
      [] fun = <<"fun", "text">> -> <<d.year, PyStr(str(d.year))>>

\* for key in fun(d): if key: count[str(key)] += 1
RECURSIVE TallyKeys(_, _)
TallyKeys(t, ks) ==
    IF ks = <<>> THEN t
    ELSE TallyKeys(IF Truthy(Head(ks)) THEN Add(t, str(Head(ks)), 1) ELSE t,
                   Tail(ks))

\* for d in docset.docs: ...
RECURSIVE Tally(_, _, _)
Tally(t, docs, fun) ==
    IF docs = <<>> THEN t
    ELSE Tally(TallyKeys(t, Apply(fun, Head(docs))), Tail(docs), fun)

\* [count[str(a)] for a in keys], left to right
RECURSIVE Heights(_, _, _)
Heights(t, ks, acc) ==
    IF ks = <<>> THEN [table |-> t, heights |-> acc, err |-> FALSE]
    ELSE LET got == GetItem(t, str(Head(ks)))
         IN  IF got.err THEN [table |-> t, heights |-> acc, err |-> TRUE]
             ELSE Heights(got.table, Tail(ks), Append(acc, got.value))

\* the keys chosen from x
SelectKeys(x, t) ==
    IF x[1] = "list" THEN x[2]
    ELSE IF x[1] = "int"
         THEN LET top == top_k(t, x[2]) IN [i \in 1..Len(top) |-> PyStr(top[i])]
         ELSE [i \in 1..Len(t.items) |-> PyStr(TableKeys(t)[i])]

plot_statistic(fun, ds, x, ax, x_label, countArg, vertical, title) ==
    LET ax0 == IF ax = None THEN gca ELSE ax[2]
        count0 == IF countArg = None THEN Tally(defaultdict, ds.docs, fun)
                  ELSE countArg[2]
        \* plt.title acts on the current axis
        axes0 == IF title # None THEN [axes EXCEPT ![gca].title = title[2]]
                 ELSE axes
        keys0 == SelectKeys(x, count0)
        keys1 == IF ~vertical THEN Reverse(keys0) ELSE keys0
        axes1 == IF ~vertical THEN [axes0 EXCEPT ![ax0].xlabel = x_label[2]]
                 ELSE [axes0 EXCEPT ![ax0].ylabel = x_label[2]]
        got == Heights(count0, keys1, <<>>)
        ticks == [i \in 1..Len(keys1) |-> Prefix(str(keys1[i]), TickLen)]
        drawn == Bars(IF ~vertical THEN "barh" ELSE "bar", keys1, got.heights, ticks)
    IN  /\ keys' = keys1
        /\ count' = got.table
        /\ IF got.err
           THEN /\ axes' = axes1
                /\ result' = "KeyError"
           ELSE /\ axes' = [axes1 EXCEPT ![ax0].bars = @ \o drawn]
                /\ result' = "ok"

-----------------------------------------------------------------------------
(* plot_year_histogram *)

\* for d in docset.docs: if d.year is not None: year_count[d.year] += 1
RECURSIVE YearCount(_, _)
YearCount(t, docs) ==
    IF docs = <<>> THEN t
    ELSE YearCount(IF Head(docs).year # None THEN Add(t, Head(docs).year[2], 1) ELSE t,
                   Tail(docs))

\* list(range(a, b + 1))
YearRange(a, b) == PyList([i \in 1..(b + 1 - a) |-> PyInt(a + i - 1)])

\* plot_year_histogram with an empty range of years in place of the failing
\* min() and max()
plot_year_histogram_defaulting(ds, ax) ==
    LET year_count == YearCount(defaultdict, ds.docs)
        ys == {year_count.items[i][1] : i \in 1..Len(year_count.items)}
        min_year == IF ys = {} THEN 0 ELSE CHOOSE y \in ys : \A z \in ys : y <= z
        max_year == IF ys = {} THEN -1 ELSE CHOOSE y \in ys : \A z \in ys : y >= z
    IN  plot_statistic(<<"fun", "year">>, ds, YearRange(min_year, max_year),
                       ax, <<"text", "No. publications">>, None, TRUE,
                       <<"text", "Publications per year">>)

plot_year_histogram(ds, ax) ==
    LET year_count == YearCount(defaultdict, ds.docs)
        ys == {year_count.items[i][1] : i \in 1..Len(year_count.items)}
    IN  IF ys = {}
        THEN \* min() of an empty sequence
             /\ result' = "ValueError"
             /\ UNCHANGED <<axes, count, keys>>
        ELSE LET min_year == CHOOSE y \in ys : \A z \in ys : y <= z
                 max_year == CHOOSE y \in ys : \A z \in ys : y >= z
             IN  plot_statistic(<<"fun", "year">>, ds, YearRange(min_year, max_year),
                                ax, <<"text", "No. publications">>, None, TRUE,
                                <<"text", "Publications per year">>)

-----------------------------------------------------------------------------
(* plot_words_histogram *)

\* all_freqs += doc_freq, for every document
RECURSIVE Concat(_)
Concat(ss) == IF ss = <<>> THEN <<>> ELSE Head(ss) \o Concat(Tail(ss))

\* for word, freq in all_freqs: count[str(dic[word])] += freq
RECURSIVE WordCount(_, _, _)
WordCount(t, all_freqs, dic) ==
    IF all_freqs = <<>> THEN t
    ELSE WordCount(Add(t, str(dic[Head(all_freqs)[1]]), Head(all_freqs)[2]),
                   Tail(all_freqs), dic)

plot_words_histogram(freqs, dic, k, ax) ==
    plot_statistic(None, None, PyInt(k), ax, <<"text", "No. occurences">>,
                   <<"dict", WordCount(defaultdict, Concat(freqs), dic)>>, FALSE, None)

-----------------------------------------------------------------------------
(* The inputs of the calls *)

\* every sequence over S of length at most n
RECURSIVE SeqsUpTo(_, _)
SeqsUpTo(S, n) ==
    IF n = 0 THEN {<<>>}
    ELSE LET shorter == SeqsUpTo(S, n - 1)
         IN  shorter \cup {Append(s, e) : s \in shorter, e \in S}

Years == {None, PyInt(-1), PyInt(0), PyInt(2)}

Documents == [year : Years]

DocumentSets == [docs : SeqsUpTo(Documents, MaxDocs)]

Funs == {<<"fun", "year">>, <<"fun", "twice">>, <<"fun", "text">>}

XInts == {-2, -1, 0, 1, 2, 3}

XLists == {PyList(s) : s \in SeqsUpTo({PyInt(0), PyInt(2), PyStr(<<"2">>)}, 2)}

Xs == {None} \cup {PyInt(k) : k \in XInts} \cup XLists

AxArgs == {None, <<"ax", "ax1">>, <<"ax", "ax2">>}

Titles == {None, <<"text", "Publications">>}

Labels == {<<"text", "No. publications">>}

\* a key longer than a tick label
LongKey == [i \in 1..(TickLen + 1) |-> "x"]

\* count tables a caller has tallied itself
GivenItems ==
    {<<>>, <<<<LongKey, 1>>>>}
    \cup {<<<<k, v>>>> : k \in {<<"2">>, <<"a">>}, v \in {1, 2}}
    \cup {<<<<k[1], v>>, <<k[2], w>>>> :
            k \in {<<<<"2">>, <<"a">>>>, <<<<"a">>, <<"2">>>>}, v \in {1, 2}, w \in {1, 2}}

GivenCounts ==
    {<<"dict", [kind |-> kd, items |-> it]>> :
        kd \in {"defaultdict", "dict"}, it \in GivenItems}

Dictionaries == {<<PyStr(<<"a">>), PyStr(<<"b">>), PyStr(<<"2">>)>>}

DocFreqs ==
    {<<>>, <<<<1, 1>>>>, <<<<1, 2>>, <<2, 1>>>>, <<<<2, 1>>, <<3, 3>>>>}

TopKs == {-1, 1, 2, 25}

-----------------------------------------------------------------------------
(* The calls *)

Call(name, a) ==
    /\ pc' = "done"
    /\ op' = name
    /\ args' = a

\* plot_statistic over the documents
PlotStatisticDocs ==
    /\ pc = "ready"
    /\ \E fun \in Funs, x \in Xs, ax \in AxArgs, x_label \in Labels,
          vertical \in BOOLEAN, title \in Titles :
           /\ Call("plot_statistic",
                   [fun |-> fun, docset |-> docset, x |-> x, ax |-> ax,
                    x_label |-> x_label, count |-> None, vertical |-> vertical,
                    title |-> title])
           /\ plot_statistic(fun, docset, x, ax, x_label, None, vertical, title)
           /\ UNCHANGED <<docset, gca, mapping, pos>>

\* plot_statistic over a count table of the caller
PlotStatisticCount ==
    /\ pc = "ready"
    /\ \E x \in Xs, x_label \in Labels, given \in GivenCounts, vertical \in BOOLEAN :
           /\ Call("plot_statistic",
                   [fun |-> None, docset |-> None, x |-> x, ax |-> None,
                    x_label |-> x_label, count |-> given, vertical |-> vertical,
                    title |-> None])
           /\ plot_statistic(None, None, x, None, x_label, given, vertical, None)
           /\ UNCHANGED <<docset, gca, mapping, pos>>

PlotYearHistogram ==
    /\ pc = "ready"
    /\ \E ax \in AxArgs :
           /\ Call("plot_year_histogram", [docset |-> docset, ax |-> ax])
           /\ plot_year_histogram(docset, ax)
           /\ UNCHANGED <<docset, gca, mapping, pos>>

PlotWordsHistogram ==
    /\ pc = "ready"
    /\ \E freqs \in SeqsUpTo(DocFreqs, MaxDocs), dic \in Dictionaries,
          k \in TopKs, ax \in {None, <<"ax", "ax2">>} :
           /\ Call("plot_words_histogram",
                   [freqs |-> freqs, dic |-> dic, top_k |-> k, ax |-> ax])
           /\ plot_words_histogram(freqs, dic, k, ax)
           /\ UNCHANGED <<docset, gca, mapping, pos>>

-----------------------------------------------------------------------------
(* The histogram functions, each called once on a fresh canvas *)

Init ==
    /\ docset \in DocumentSets
    /\ axes = FreshAxes
    /\ gca = "ax1"
    /\ pc = "ready"
    /\ op = "none"
    /\ args = <<>>
    /\ result = "none"
    /\ count = NoTable
    /\ keys = <<>>
    /\ mapping = <<>>
    /\ pos = <<>>

Next ==
    \/ PlotStatisticDocs
    \/ PlotStatisticCount
    \/ PlotYearHistogram
    \/ PlotWordsHistogram

Spec == Init /\ [][Next]_vars

-----------------------------------------------------------------------------
(* Floating-point values: exact fractions <<"q", n, d>> in lowest terms    *)
(* with d > 0, and <<"nan", 0, 0>>, the result of 0.0 / 0.0                *)

RECURSIVE GCD(_, _)
GCD(a, b) == IF b = 0 THEN a ELSE GCD(b, a % b)

Abs(n) == IF n < 0 THEN -n ELSE n

Q(n, d) ==
    LET g == GCD(Abs(n), Abs(d))
        sg == IF d < 0 THEN -1 ELSE 1
    IN  <<"q", (sg * n) \div g, (sg * d) \div g>>

NaN == <<"nan", 0, 0>>

IsNaN(a) == a[1] = "nan"

FAdd(a, b) ==
    IF IsNaN(a) \/ IsNaN(b) THEN NaN ELSE Q(a[2] * b[3] + b[2] * a[3], a[3] * b[3])

FSub(a, b) ==
    IF IsNaN(a) \/ IsNaN(b) THEN NaN ELSE Q(a[2] * b[3] - b[2] * a[3], a[3] * b[3])

FMul(a, b) ==
    IF IsNaN(a) \/ IsNaN(b) THEN NaN ELSE Q(a[2] * b[2], a[3] * b[3])

\* the divisors of this module are maxima of absolute values: a zero divisor
\* divides zeros only
FDiv(a, b) ==
    IF IsNaN(a) \/ IsNaN(b) \/ b[2] = 0 THEN NaN ELSE Q(a[2] * b[3], a[3] * b[2])

FAbs(a) == IF IsNaN(a) THEN NaN ELSE Q(Abs(a[2]), a[3])

\* a <= b; every comparison with nan is false
FLe(a, b) == ~IsNaN(a) /\ ~IsNaN(b) /\ a[2] * b[3] <= b[2] * a[3]

FLt(a, b) == ~IsNaN(a) /\ ~IsNaN(b) /\ a[2] * b[3] < b[2] * a[3]

\* np.amin / np.amax of a non-empty set of numbers
AMin(S) == CHOOSE a \in S : \A b \in S : FLe(a, b)

AMax(S) == CHOOSE a \in S : \A b \in S : FLe(b, a)

-----------------------------------------------------------------------------
(* generate_topic_cloud *)

TopWords == 100

\* every subset of S, a set of integers, with r elements
RECURSIVE KSubsets(_, _)
KSubsets(S, r) ==
    IF r = 0 THEN {{}}
    ELSE UNION {{R \cup {x} : R \in KSubsets({y \in S : y > x}, r - 1)} : x \in S}

\* np.argsort(row)[-k:] as a set of (1-based) indices. argsort leaves the
\* order of equal weights open, so every choice among the weights that tie at
\* the cut is a possible result.
LastOfArgsort(row, k) ==
    LET n == Len(row)
        e == Max(0, n - k)
        below(v) == {i \in 1..n : row[i] < v}
        upto(v) == {i \in 1..n : row[i] <= v}
    IN  IF e = 0 THEN {1..n}
        ELSE LET t == CHOOSE v \in {row[i] : i \in 1..n} :
                          Cardinality(below(v)) < e /\ e <= Cardinality(upto(v))
             IN  {(1..n) \ (below(t) \cup R) :
                     R \in KSubsets(upto(t) \ below(t), e - Cardinality(below(t)))}

\* the mapping with `>= 0` for `> 0`
TopicMappingNonNegative(row, dictionary, chosen) ==
    LET maximum == AMax({Q(row[i], 1) : i \in 1..Len(row)})
        kept == {i \in chosen : row[i] >= 0}
    IN  [tok \in {dictionary[i] : i \in kept} |->
            LET i == CHOOSE j \in kept : dictionary[j] = tok
            IN  FDiv(Q(row[i], 1), maximum)]

\* the mapping built from the chosen indices
TopicMapping(row, dictionary, chosen) ==
    LET maximum == AMax({Q(row[i], 1) : i \in 1..Len(row)})
        kept == {i \in chosen : row[i] > 0}
    IN  [tok \in {dictionary[i] : i \in kept} |->
            LET i == CHOOSE j \in kept : dictionary[j] = tok
            IN  FDiv(Q(row[i], 1), maximum)]

generate_topic_cloud(model, topicid) ==
    LET row == model.topic2token[topicid + 1]
    IN  \E chosen \in LastOfArgsort(row, TopWords) :
            /\ mapping' = TopicMapping(row, model.dictionary, chosen)
            \* WordCloud.fit_words refuses an empty mapping
            /\ result' = IF \A i \in chosen : row[i] <= 0 THEN "ValueError" ELSE "ok"

-----------------------------------------------------------------------------
(* plot_topic_map *)

labels ==
    <<"A", "B", "C", "D", "E", "F", "G", "H", "I", "J", "K", "L", "M",
      "N", "O", "P", "Q", "R", "S", "T", "U", "V", "W", "X", "Y", "Z">>

\* ax.scatter and ax.text of draw_dot; the colour is a function of the topic
draw_dot(model, p, t, zorder) ==
    << [kind |-> "scatter", at |-> p, topic |-> t, text |-> <<>>, zorder |-> zorder],
       [kind |-> "text", at |-> p, topic |-> t, text |-> <<labels[t + 1]>>,
        zorder |-> zorder + 1] >>

\* Resize so xy-position is between 0.05 and 0.95
Resize(p) ==
    LET n == Len(p)
        col(j) == {p[i][j] : i \in 1..n}
        mid(j) == FDiv(FAdd(AMin(col(j)), AMax(col(j))), Q(2, 1))
        p1 == [i \in 1..n |-> [j \in 1..2 |-> FSub(p[i][j], mid(j))]]
        m == AMax({FAbs(p1[i][j]) : i \in 1..n, j \in 1..2})
        p2 == [i \in 1..n |-> [j \in 1..2 |-> FDiv(p1[i][j], m)]]
        p3 == [i \in 1..n |-> [j \in 1..2 |-> FAdd(FMul(p2[i][j], Q(1, 2)), Q(1, 2))]]
    IN  [i \in 1..n |-> [j \in 1..2 |-> FAdd(FMul(p3[i][j], Q(9, 10)), Q(1, 20))]]

\* np.average(model.doc2topic, axis=0)
RECURSIVE Sum(_)
Sum(s) == IF s = <<>> THEN 0 ELSE Head(s) + Sum(Tail(s))

Average(doc2topic, t) ==
    Q(Sum([i \in 1..Len(doc2topic) |-> doc2topic[i][t]]), Len(doc2topic))

\* np.argmax(model.doc2topic[i] - avg): the first index of the largest entry
TopicOf(model, i) ==
    LET diff == [t \in 1..model.num_topics |->
                    FSub(Q(model.doc2topic[i][t], 1), Average(model.doc2topic, t))]
        best == {t \in 1..model.num_topics :
                    \A u \in 1..model.num_topics : FLe(diff[u], diff[t])}
    IN  (CHOOSE t \in best : \A u \in best : t <= u) - 1

\* the dots of the documents, in the order of the permutation
RECURSIVE Dots(_, _, _, _)
Dots(model, p, order, zorder) ==
    IF order = <<>> THEN <<>>
    ELSE draw_dot(model, p[Head(order)], TopicOf(model, Head(order)), zorder)
         \o Dots(model, p, Tail(order), zorder + 2)

\* ', '.join(...)
RECURSIVE Join(_)
Join(ws) ==
    IF ws = <<>> THEN <<>>
    ELSE IF Len(ws) = 1 THEN ws[1]
    ELSE ws[1] \o <<",", " ">> \o Join(Tail(ws))

\* the words np.argsort(model.topic2token[i])[::-1][:3] names; the topics of
\* the models drawn here have no two equal weights
TopThree(model, dic, i) ==
    LET row == model.topic2token[i + 1]
        byWeight == sorted([kind |-> "dict",
                            items |-> [w \in 1..Len(row) |-> <<w, row[w]>>]])
        top == Prefix(Reverse(byWeight), 3)
    IN  [j \in 1..Len(top) |-> dic[top[j]]]

\* the legend: a dot and a label per topic
RECURSIVE Legend(_, _, _, _)
Legend(model, dic, i, zorder) ==
    IF i >= model.num_topics THEN <<>>
    ELSE LET y == FSub(Q(19, 20), FMul(Q(i, 1), Q(1, 20)))
         IN  draw_dot(model, <<Q(3, 200), y>>, i, 0)
             \o << [kind |-> "text", at |-> <<Q(3, 100), y>>, topic |-> i,
                    text |-> Join(TopThree(model, dic, i)), zorder |-> zorder] >>
             \o Legend(model, dic, i + 1, zorder + 1)

\* tsne: the embedding fit_transform returns; order: np.random.permutation
plot_topic_map(model, dic, ax, tsne, order) ==
    LET ax0 == IF ax = None THEN gca ELSE ax[2]
        p == Resize(tsne)
        dots == Dots(model, p, order, 0)
        legend == Legend(model, dic, 0, 2 * Len(order))
    IN  /\ pos' = p
        /\ axes' = [axes EXCEPT ![ax0].xticks = <<"set">>,
                                ![ax0].yticks = <<"set">>,
                                ![ax0].xlim = <<"set", 0, 1>>,
                                ![ax0].ylim = <<"set", 0, 1>>,
                                ![ax0].artists = @ \o dots \o legend]
        /\ result' = "ok"

-----------------------------------------------------------------------------
(* The inputs of the topic functions *)

MaxPoints == 2

\* the word of the dictionary with index i
Token(i) == <<"w">> \o Digits(i)

\* a topic of n words whose weights repeat with period m
Weights(n, a, b, m, c) == [i \in 1..n |-> ((a * i + b) % m) - c]

TopicRows ==
    {Weights(n, am[1], b, am[2], c) :
        n \in {1, 2, 3, TopWords - 1, TopWords, TopWords + 1},
        am \in {<<1, 1>>, <<1, 3>>, <<7, 5>>, <<1, 2 * TopWords>>},
        b \in {0, 1}, c \in {-1, 0}}

\* models of two topics over one dictionary
CloudModels ==
    {[num_topics |-> 2,
      topic2token |-> IF first THEN <<row, Weights(Len(row), 1, 0, 2, 0)>>
                      ELSE <<Weights(Len(row), 1, 0, 2, 0), row>>,
      dictionary |-> [i \in 1..Len(row) |-> Token(i)]] :
        row \in TopicRows, first \in BOOLEAN}

Points == {<<Q(x, 1), Q(y, 1)>> : x \in {0, 3}, y \in {0, 2}}

Embeddings == SeqsUpTo(Points, MaxPoints) \ {<<>>}

TopicShares == {<<1, 0>>, <<0, 1>>, <<1, 1>>}

MapDictionary == <<<<"a">>, <<"b">>, <<"c">>, <<"d">>>>

MapTopics == << <<3, 1, 2, 0>>, <<0, 5, 1, 7>> >>

Orderings(n) ==
    {s \in [1..n -> 1..n] : \A i, j \in 1..n : s[i] = s[j] => i = j}

-----------------------------------------------------------------------------
(* The topic functions, each called once on a fresh canvas *)

GenerateTopicCloud ==
    /\ pc = "ready"
    /\ \E model \in CloudModels, topicid \in {0} :
           /\ Call("generate_topic_cloud", [model |-> model, topicid |-> topicid])
           /\ generate_topic_cloud(model, topicid)
           /\ UNCHANGED <<docset, axes, gca, count, keys, pos>>

PlotTopicMap ==
    /\ pc = "ready"
    /\ \E tsne \in Embeddings, ax \in {None, <<"ax", "ax2">>} :
           \E doc2topic \in [1..Len(tsne) -> TopicShares],
              order \in Orderings(Len(tsne)) :
               LET model == [num_topics |-> 2, topic2token |-> MapTopics,
                             doc2topic |-> doc2topic]
               IN  /\ Call("plot_topic_map",
                           [model |-> model, dic |-> MapDictionary, ax |-> ax,
                            tsne |-> tsne, order |-> order])
                   /\ plot_topic_map(model, MapDictionary, ax, tsne, order)
                   /\ UNCHANGED <<docset, gca, count, keys, mapping>>

InitTopic ==
    /\ docset = [docs |-> <<>>]
    /\ axes = FreshAxes
    /\ gca = "ax1"
    /\ pc = "ready"
    /\ op = "none"
    /\ args = <<>>
    /\ result = "none"
    /\ count = NoTable
    /\ keys = <<>>
    /\ mapping = <<>>
    /\ pos = <<>>

NextTopic ==
    \/ GenerateTopicCloud
    \/ PlotTopicMap

SpecTopic == InitTopic /\ [][NextTopic]_vars

-----------------------------------------------------------------------------
(* What the claims below speak of *)

HistogramOps == {"plot_statistic", "plot_year_histogram", "plot_words_histogram"}

\* count[s], or 0 when the table has no such key
Tallied(t, s) == IF Has(t, s) THEN Val(t, s) ELSE 0

\* the axis a finished call was to draw on
Target == IF args.ax = None THEN gca ELSE args.ax[2]

\* the integer x of a finished call, or None
IntX ==
    IF op = "plot_words_histogram" THEN PyInt(args.top_k)
    ELSE IF op = "plot_statistic" /\ args.x[1] = "int" THEN args.x
    ELSE None

\* the title and the label of a finished histogram call
TitleOf ==
    IF op = "plot_statistic" THEN args.title
    ELSE IF op = "plot_year_histogram" THEN <<"text", "Publications per year">>
    ELSE None

LabelOf ==
    IF op = "plot_statistic" THEN args.x_label[2]
    ELSE IF op = "plot_year_histogram" THEN "No. publications"
    ELSE "No. occurences"

\* the keys returned are distinct keys of the table, and none of the keys left
\* out has a higher count than one returned
HighestCounts ==
    /\ \A i, j \in 1..Len(keys) : keys[i] = keys[j] => i = j
    /\ \A i \in 1..Len(keys) : Has(count, keys[i][2])
    /\ \A i \in 1..Len(keys), j \in 1..Len(count.items) :
          (\A m \in 1..Len(keys) : keys[m][2] # count.items[j][1])
              => Val(count, keys[i][2]) >= count.items[j][2]

-----------------------------------------------------------------------------
(* The claims *)

\* C1: when plot_statistic builds the count table itself, count[str(k)] is,
\* for every non-empty key k that fun yields, the number of documents for
\* which fun yields k, however often fun yields it.
C1_CountsOncePerDocument ==
    (op = "plot_statistic" /\ args.count = None) =>
        LET docs == args.docset.docs
            yields(j, k) == \E m \in 1..Len(Apply(args.fun, docs[j])) :
                               Apply(args.fun, docs[j])[m] = k
        IN  \A d \in 1..Len(docs) : \A n \in 1..Len(Apply(args.fun, docs[d])) :
                LET k == Apply(args.fun, docs[d])[n]
                IN  Truthy(k) =>
                        Tallied(count, str(k))
                            = Cardinality({j \in 1..Len(docs) : yields(j, k)})

\* C2, as stated: for every integer x, top_k returns min(x, number of keys)
\* distinct keys of the table, none with a lower count than a key left out.
C2_TopKOfEveryInteger ==
    (pc = "done" /\ IntX # None) =>
        /\ Len(keys) = Min(IntX[2], Len(count.items))
        /\ HighestCounts

\* C2, amended: for an integer x >= 0, top_k returns min(x, number of keys)
\* keys, for x < 0 all but the -x keys with the lowest counts (none when there
\* are no more than -x keys); in both cases they are distinct keys of the
\* table and none has a lower count than a key left out.
C2_TopKHighestCounts ==
    (pc = "done" /\ IntX # None) =>
        /\ Len(keys) = IF IntX[2] >= 0 THEN Min(IntX[2], Len(count.items))
                       ELSE Max(0, Len(count.items) + IntX[2])
        /\ HighestCounts

\* C2: reached: two keys chosen out of three, two of which tie
C2_Witness ==
    /\ pc = "done"
    /\ IntX = PyInt(2)
    /\ Len(count.items) = 3
    /\ Len(keys) = 2
    /\ \E i, j \in 1..3 : i # j /\ count.items[i][2] = count.items[j][2]

\* C3: when x is a list, the call draws exactly one bar per element of x, inside
\* either layout and with either origin of the count table, and the height of
\* the bar is the tallied count of the element, 0 when it was never tallied.
C3_OneBarPerListElement ==
    (op = "plot_statistic" /\ args.x[1] = "list") =>
        LET tallied == IF args.count = None
                       THEN Tally(defaultdict, args.docset.docs, args.fun)
                       ELSE args.count[2]
            xs == IF args.vertical THEN args.x[2] ELSE Reverse(args.x[2])
            bars == axes[Target].bars
        IN  /\ result = "ok"
            /\ Len(bars) = Len(xs)
            /\ \A i \in 1..Len(xs) :
                  /\ bars[i].at = xs[i]
                  /\ bars[i].height = Tallied(tallied, str(xs[i]))

\* C4: for a docset with a dated document, plot_year_histogram draws one bar
\* for every year from the smallest to the largest year present, as high as
\* the number of documents of that year.
C4_OneBarPerYear ==
    (op = "plot_year_histogram"
        /\ \E j \in 1..Len(args.docset.docs) : args.docset.docs[j].year # None) =>
        LET docs == args.docset.docs
            ys == {docs[j].year[2] : j \in {i \in 1..Len(docs) : docs[i].year # None}}
            lo == CHOOSE y \in ys : \A z \in ys : y <= z
            hi == CHOOSE y \in ys : \A z \in ys : y >= z
            bars == axes[Target].bars
        IN  /\ result = "ok"
            /\ Len(bars) = hi - lo + 1
            /\ \A y \in lo..hi : \E i \in 1..Len(bars) :
                  /\ bars[i].at = PyInt(y)
                  /\ bars[i].height
                        = Cardinality({j \in 1..Len(docs) : docs[j].year = PyInt(y)})

\* C5: a histogram call that is given an axis other than the current axis
\* puts its bars, its label and its title on that axis and leaves the current
\* axis as it was.
C5_DrawsOnTheGivenAxisOnly ==
    (op \in HistogramOps /\ result = "ok" /\ args.ax # None /\ args.ax[2] # gca) =>
        /\ axes[gca] = FreshAxis
        /\ Len(axes[args.ax[2]].bars) = Len(keys)
        /\ LabelOf \in {axes[args.ax[2]].xlabel, axes[args.ax[2]].ylabel}
        /\ TitleOf # None => axes[args.ax[2]].title = TitleOf[2]

\* C6: plot_year_histogram on a docset that is empty or has no dated document
\* ends in the error of min(), with nothing drawn on any axis and the docset
\* as it was passed.
C6_NoYearsRaises ==
    (op = "plot_year_histogram"
        /\ \A j \in 1..Len(args.docset.docs) : args.docset.docs[j].year = None) =>
        /\ result = "ValueError"
        /\ axes = FreshAxes
        /\ docset = args.docset

\* C6: reached: the call on a docset of undated documents has raised
C6_Witness ==
    /\ op = "plot_year_histogram"
    /\ Len(docset.docs) = MaxDocs
    /\ \A j \in 1..Len(docset.docs) : docset.docs[j].year = None
    /\ result = "ValueError"

\* C7: after the resize step of plot_topic_map every coordinate of every
\* document lies between 0.05 and 0.95, whatever the embedded points are.
C7_ResizedIntoUnitSquare ==
    op = "plot_topic_map" =>
        \A i \in 1..Len(pos) : \A j \in 1..2 :
            FLe(Q(1, 20), pos[i][j]) /\ FLe(pos[i][j], Q(19, 20))

\* the mapping holds the words of the TopWords highest weights that are
\* positive, each with its weight over the maximum, a value in (0, 1]
CloudOfTopWeights ==
    LET row == args.model.topic2token[args.topicid + 1]
        dictionary == args.model.dictionary
        n == Len(row)
        top == CHOOSE v \in {row[i] : i \in 1..n} : \A i \in 1..n : row[i] <= v
        positive == {i \in 1..n : row[i] > 0}
        inside == {i \in 1..n : dictionary[i] \in DOMAIN mapping}
    IN  /\ DOMAIN mapping \subseteq {dictionary[i] : i \in 1..n}
        /\ inside \subseteq positive
        /\ Cardinality(inside) = Min(Cardinality(positive), Min(TopWords, n))
        /\ \A i \in inside, j \in positive \ inside : row[i] >= row[j]
        /\ \A i \in inside :
              LET v == mapping[dictionary[i]]
              IN  /\ ~IsNaN(v)
                  /\ v[2] * top = row[i] * v[3]
                  /\ FLt(Q(0, 1), v) /\ FLe(v, Q(1, 1))

\* a word of the highest weight is in the mapping, with the value 1
HighestMapsToOne ==
    LET row == args.model.topic2token[args.topicid + 1]
        dictionary == args.model.dictionary
        n == Len(row)
    IN  \E i \in 1..n :
            /\ \A j \in 1..n : row[j] <= row[i]
            /\ dictionary[i] \in DOMAIN mapping
            /\ mapping[dictionary[i]] = Q(1, 1)

\* C8, as stated: for every topic the mapping holds exactly the words among
\* the 100 highest-weighted that have a positive weight, each with its weight
\* over the maximum, so that every value is in (0, 1] and the highest-weighted
\* word maps to 1.
C8_CloudOfEveryTopic ==
    op = "generate_topic_cloud" => CloudOfTopWeights /\ HighestMapsToOne

\* C8, amended: as stated, but the highest-weighted word maps to 1 only for a
\* topic with some positive weight; for a topic without one the mapping is
\* empty.
C8_CloudOfTopWeights ==
    op = "generate_topic_cloud" =>
        LET row == args.model.topic2token[args.topicid + 1]
        IN  /\ CloudOfTopWeights
            /\ (\E i \in 1..Len(row) : row[i] > 0) => HighestMapsToOne
            /\ (\A i \in 1..Len(row) : row[i] <= 0) => DOMAIN mapping = {}

\* C8: reached: a topic of more than TopWords words whose mapping was cut to
\* TopWords words, fewer than have a positive weight
C8_Witness ==
    /\ op = "generate_topic_cloud"
    /\ LET row == args.model.topic2token[args.topicid + 1]
       IN  /\ Len(row) > TopWords
           /\ Cardinality({i \in 1..Len(row) : row[i] > 0}) > Cardinality(DOMAIN mapping)
           /\ Cardinality(DOMAIN mapping) = TopWords

====
